---- MODULE Spec2Model ----
(***************************************************************************)
(* Manifest decoding and identity resolution of cve_bin_tool:              *)
(*   sbom_manager/__init__.py   SBOMManager (SPDX / CycloneDX ingestion)   *)
(*   parsers/javascript.py      JavascriptParser (package-lock.json)       *)
(*                                                                         *)
(* A Python str is a sequence of one-character strings, so that lower(),   *)
(* split(), startswith() and the three re.match patterns are computed      *)
(* character by character.  Python's None is the value None below.         *)
(***************************************************************************)
EXTENDS Integers, Sequences, FiniteSets, TLC

\* ------------------------------------------------------------------ bounds
\* Longest externalreference list of a package.
MaxRefs == 2
\* Most packages of one SBOM document.
MaxPackages == 2
\* Most entries of the packages / dependencies map of a lock file.
MaxEntries == 2
\* Most lines of a PKG-INFO / METADATA file.
MaxLines == 4
\* Most packages pip3 reports for a requirements file.
MaxInstall == 2

\* ------------------------------------------------------------ Python values
None == <<"None">>
\* None where a list of references is expected
NoExtRef == <<None>>

\* Op applied to the value v: a local name for a value that is used several
\* times (TLC then evaluates, and counts, the expression for v once).
Bind(v, Op(_)) == Op(v)

\* bool(x) of a str-or-None value: None and "" are falsy.
Truthy(x) == x # None /\ x # <<>>

\* Python's `x or None`.
OrNone(x) == IF Truthy(x) THEN x ELSE None

Upper == <<"A","B","C","D","E","F","G","H","I","J","K","L","M",
           "N","O","P","Q","R","S","T","U","V","W","X","Y","Z">>
Lowercase == <<"a","b","c","d","e","f","g","h","i","j","k","l","m",
               "n","o","p","q","r","s","t","u","v","w","x","y","z">>
Letters == {Upper[i] : i \in 1..26} \cup {Lowercase[i] : i \in 1..26}
Digits == {"0","1","2","3","4","5","6","7","8","9"}

LowerChar(c) ==
    IF \E i \in 1..26 : Upper[i] = c
    THEN Lowercase[CHOOSE i \in 1..26 : Upper[i] = c]
    ELSE c

\* str.lower()
lower(s) == [i \in 1..Len(s) |-> LowerChar(s[i])]

\* str.startswith(prefix)
startswith(s, prefix) ==
    /\ Len(prefix) <= Len(s)
    /\ \A i \in 1..Len(prefix) : s[i] = prefix[i]

\* s[n:]
DropFirst(s, n) == SubSeq(s, n + 1, Len(s))

\* Smallest index >= from at which s holds character c, 0 when there is none.
RECURSIVE NextAt(_, _, _)
NextAt(s, c, from) ==
    IF from > Len(s) THEN 0
    ELSE IF s[from] = c THEN from
    ELSE NextAt(s, c, from + 1)

\* Index of the first occurrence of character c in s, 0 when there is none.
Find(s, c) == NextAt(s, c, 1)

\* Largest index <= from at which s holds character c, 0 when there is none.
RECURSIVE PrevAt(_, _, _)
PrevAt(s, c, from) ==
    IF from < 1 THEN 0
    ELSE IF s[from] = c THEN from
    ELSE PrevAt(s, c, from - 1)

\* Index of the last occurrence of character c in s, 0 when there is none.
RFind(s, c) == PrevAt(s, c, Len(s))

\* str.split(sep) for a one-character separator: always at least one piece.
RECURSIVE split(_, _)
split(s, sep) ==
    LET i == Find(s, sep)
    IN  IF i = 0 THEN <<s>>
        ELSE <<SubSeq(s, 1, i - 1)>> \o split(DropFirst(s, i), sep)

\* The character at position i, "" past the end.
At(s, i) == IF i >= 1 /\ i <= Len(s) THEN s[i] ELSE ""

\* ------------------------------------------------- is_valid_string patterns
\* [a-zA-Z0-9\-\._]
CpeUnreserved == Letters \cup Digits \cup {"-", ".", "_"}
\* the characters that may follow a backslash in a CPE 2.3 component (the
\* pattern also lists the backquote, which no string of the model contains)
CpeEscapable == {"\\","*","?","!","\"","#","$","%","&","'","(",")","+",",","-",
                 ".","/",":",";","<","=",">","@","[","]","^","{","|","}","~"}

\* The position after the run of '?' that starts at i.
RECURSIVE QuestRunEnd(_, _)
QuestRunEnd(s, i) == IF At(s, i) = "?" THEN QuestRunEnd(s, i + 1) ELSE i

\* End positions of (\?*|\*?) started at i.
QuestStarEnds(s, i) ==
    (i..QuestRunEnd(s, i)) \cup (IF At(s, i) = "*" THEN {i + 1} ELSE {})

\* End positions of ([a-zA-Z0-9\-\._]|(\\[...])) started at i.
UnitEnds(s, i) ==
    (IF At(s, i) \in CpeUnreserved THEN {i + 1} ELSE {})
    \cup (IF At(s, i) = "\\" /\ At(s, i + 1) \in CpeEscapable THEN {i + 2} ELSE {})

RECURSIVE UnitsReach(_, _, _)
UnitsReach(s, frontier, acc) ==
    IF frontier = {} THEN acc
    ELSE LET nxt == UNION {UnitEnds(s, p) : p \in frontier} \ acc
         IN  UnitsReach(s, nxt, acc \cup nxt)

\* End positions of (unit)+ started at i.
UnitsPlusEnds(s, i) == UnitsReach(s, UnitEnds(s, i), UnitEnds(s, i))

\* End positions of one CPE 2.3 component started at i:
\* ((\?*|\*?)(unit)+(\?*|\*?))|[\*\-]
ComponentEnds(s, i) ==
    UNION {UNION {QuestStarEnds(s, u) : u \in UnitsPlusEnds(s, p)}
              : p \in QuestStarEnds(s, i)}
    \cup (IF At(s, i) \in {"*", "-"} THEN {i + 1} ELSE {})

\* End positions of (:component){n} started at any position of I.
RECURSIVE ColonComponents(_, _, _)
ColonComponents(s, I, n) ==
    IF n = 0 THEN I
    ELSE ColonComponents(s,
            UNION {IF At(s, p) = ":" THEN ComponentEnds(s, p + 1) ELSE {} : p \in I},
            n - 1)

\* End positions of (([a-zA-Z]{2,3}(-([a-zA-Z]{2}|[0-9]{3}))?)|[\*\-]) at i.
LangEnds(s, i) ==
    LET base == IF At(s, i) \in Letters /\ At(s, i + 1) \in Letters
                THEN {i + 2} \cup (IF At(s, i + 2) \in Letters THEN {i + 3} ELSE {})
                ELSE {}
        region(e) ==
            IF At(s, e) = "-"
            THEN (IF At(s, e + 1) \in Letters /\ At(s, e + 2) \in Letters
                  THEN {e + 3} ELSE {})
                 \cup (IF At(s, e + 1) \in Digits /\ At(s, e + 2) \in Digits
                          /\ At(s, e + 3) \in Digits
                       THEN {e + 4} ELSE {})
            ELSE {}
    IN  base \cup UNION {region(e) : e \in base}
        \cup (IF At(s, i) \in {"*", "-"} THEN {i + 1} ELSE {})

Cpe23Prefix == <<"c","p","e",":","2",".","3",":">>

\* re.match of the cpe23 pattern: anchored at the start only.
MatchCpe23(s) ==
    /\ startswith(s, Cpe23Prefix)
    /\ At(s, 9) \in {"a", "h", "o", "*", "-"}
    /\ LET five == ColonComponents(s, {10}, 5)
           lang == UNION {IF At(s, p) = ":" THEN LangEnds(s, p + 1) ELSE {}
                             : p \in five}
       IN  ColonComponents(s, lang, 4) # {}

\* re.match of the cpe22 pattern ^[c][pP][eE]:/[AHOaho]?(:[...]*){0,6}: after
\* the five leading characters everything is optional and nothing anchors the
\* end, so the rest of the string never makes the match fail.
MatchCpe22(s) ==
    /\ At(s, 1) = "c"
    /\ At(s, 2) \in {"p", "P"}
    /\ At(s, 3) \in {"e", "E"}
    /\ At(s, 4) = ":"
    /\ At(s, 5) = "/"

\* re.match of the purl pattern ^(.+):(.+)/(.+)/(.+)@(.+)\??(.*)#?(.*)$ :
\* a ':' , two '/' and an '@' in this order with at least one character
\* before, between and after them; the leftmost choice of each leaves the
\* most room for the rest, so it decides whether any choice matches.
MatchPurl(s) ==
    LET i == NextAt(s, ":", 2)
        j == IF i = 0 THEN 0 ELSE NextAt(s, "/", i + 2)
        k == IF j = 0 THEN 0 ELSE NextAt(s, "/", j + 2)
        l == IF k = 0 THEN 0 ELSE NextAt(s, "@", k + 2)
    IN  l # 0 /\ l < Len(s)

t_purl == <<"p","u","r","l">>
t_cpe22 == <<"c","p","e","2","2">>
t_cpe23 == <<"c","p","e","2","3">>
t_cpe22Type == <<"c","p","e","2","2","T","y","p","e">>
t_cpe23Type == <<"c","p","e","2","3","T","y","p","e">>

is_valid_string(string_type, ref_string) ==
    IF string_type = t_purl THEN MatchPurl(ref_string)
    ELSE IF string_type = t_cpe23 THEN MatchCpe23(ref_string)
    ELSE MatchCpe22(ref_string)

\* str.join: sep.join(parts)
RECURSIVE join(_, _)
join(sep, parts) ==
    IF parts = <<>> THEN <<>>
    ELSE IF Len(parts) = 1 THEN parts[1]
    ELSE parts[1] \o sep \o join(sep, Tail(parts))

\* ------------------------------------------------------ strings of the model
s_flask == <<"f","l","a","s","k">>
s_Flask == <<"F","l","a","s","k">>
s_python == <<"p","y","t","h","o","n">>
s_six == <<"s","i","x">>
s_pallets == <<"p","a","l","l","e","t","s">>
s_Pallets == <<"P","a","l","l","e","t","s">>
s_armin == <<"a","r","m","i","n">>
s_psf == <<"p","s","f">>
s_pypi == <<"p","y","p","i">>
s_python_flask == join(<<"-">>, <<s_python, s_flask>>)
s_Python_Flask == join(<<"-">>, <<<<"P","y","t","h","o","n">>, s_Flask>>)
v_1_0 == <<"1",".","0">>
v_1_1 == <<"1",".","1">>
v_2_0 == <<"2",".","0">>
v_3_0 == <<"3",".","0">>
s_core == <<"c","o","r","e">>
s_cache == <<"c","a","c","h","e">>
s_dep == <<"d","e","p">>
s_app == <<"a","p","p">>
s_actions == <<"a","c","t","i","o","n","s">>
s_github == <<"g","i","t","h","u","b">>
s_acme == <<"a","c","m","e">>
v_0_1 == <<"0",".","1">>
\* "node_modules/@actions/core"
k_core == <<"n","o","d","e","_","m","o","d","u","l","e","s","/","@","a","c","t","i","o","n","s","/">> \o s_core
\* "node_modules/dep"
k_dep == <<"n","o","d","e","_","m","o","d","u","l","e","s","/">> \o s_dep
\* "@actions/core"
n_core == <<"@","a","c","t","i","o","n","s","/">> \o s_core
s_package_lock == <<"p","a","c","k","a","g","e","-","l","o","c","k",".","j","s","o","n">>
s_zstandard == <<"z","s","t","a","n","d","a","r","d">>
s_facebook == <<"f","a","c","e","b","o","o","k">>
s_indygreg == <<"i","n","d","y","g","r","e","g">>
v_0_18_0 == <<"0",".","1","8",".","0">>
\* "Name: " and "Version: "
s_Name == <<"N","a","m","e",":"," ">>
s_Version == <<"V","e","r","s","i","o","n",":"," ">>
\* "Metadata-Version: 2.1"
l_metadata_version == <<"M","e","t","a","d","a","t","a","-">> \o s_Version \o <<"2",".","1">>
l_name_zstandard == s_Name \o s_zstandard
l_name_flask == s_Name \o s_flask
l_version == s_Version \o v_0_18_0
\* " Name: zstandard", indented
l_indented_name == <<" ">> \o s_Name \o s_zstandard
\* "Summary: Zstandard bindings"
l_summary == <<"S","u","m","m","a","r","y",":"," ","Z","s","t","a","n","d","a","r","d"," ","b","i","n","d","i","n","g","s">>
s_PKG_INFO == <<"P","K","G","-","I","N","F","O">>
s_METADATA == <<"M","E","T","A","D","A","T","A">>
s_FAIL_PKG_INFO == <<"F","A","I","L","-","P","K","G","-","I","N","F","O">>
s_requirements_txt == <<"r","e","q","u","i","r","e","m","e","n","t","s",".","t","x","t">>
\* "22.2", the version run_checker compares with
s_22_2 == <<"2","2",".","2">>
\* str() of the bytes pip3 --version prints
pip_20_0_2 == <<"b","'","p","i","p"," ","2","0",".","0",".","2"," ","f","r","o","m"," ","/","u","s","r","/","l","i","b","/","p","y","t","h","o","n","3","/","d","i","s","t","-","p","a","c","k","a","g","e","s","/","p","i","p"," ","(","p","y","t","h","o","n"," ","3",".","8",")">>
pip_22_1_2 == <<"b","'","p","i","p"," ","2","2",".","1",".","2"," ","f","r","o","m"," ","/","u","s","r","/","l","i","b","/","p","y","t","h","o","n","3","/","d","i","s","t","-","p","a","c","k","a","g","e","s","/","p","i","p"," ","(","p","y","t","h","o","n"," ","3",".","1","0",")">>
pip_22_2 == <<"b","'","p","i","p"," ","2","2",".","2"," ","f","r","o","m"," ","/","u","s","r","/","l","i","b","/","p","y","t","h","o","n","3","/","d","i","s","t","-","p","a","c","k","a","g","e","s","/","p","i","p"," ","(","p","y","t","h","o","n"," ","3",".","1","0",")">>
pip_23_0_1 == <<"b","'","p","i","p"," ","2","3",".","0",".","1"," ","f","r","o","m"," ","/","u","s","r","/","l","i","b","/","p","y","t","h","o","n","3","/","d","i","s","t","-","p","a","c","k","a","g","e","s","/","p","i","p"," ","(","p","y","t","h","o","n"," ","3",".","1","1",")">>
s_nasm == <<"n","a","s","m">>
s_netwide_assembler == <<"n","e","t","w","i","d","e","_","a","s","s","e","m","b","l","e","r">>
v_2_15 == <<"2",".","1","5">>
s_SECURITY == <<"S","E","C","U","R","I","T","Y">>
s_PACKAGE_MANAGER == <<"P","A","C","K","A","G","E","-","M","A","N","A","G","E","R">>
s_cpe == <<"c","p","e">>
s_star == <<"*">>

\* cpe:2.3:a:<vendor>:<product>:<version>:*:*:*:*:*:*:*
Cpe23String(vendor, product, version) ==
    join(<<":">>, <<s_cpe, <<"2",".","3">>, <<"a">>, vendor, product, version,
                   s_star, s_star, s_star, s_star, s_star, s_star, s_star>>)

\* cpe:/a:<vendor>:<product>:<version>
Cpe22String(vendor, product, version) ==
    join(<<":">>, <<s_cpe, <<"/", "a">>, vendor, product, version>>)

\* "cpe:2.3:a:pallets:flask:2.0": too few components for the cpe23 pattern
cpe23_short == join(<<":">>, <<s_cpe, <<"2",".","3">>, <<"a">>, s_pallets, s_flask, v_2_0>>)
\* "cpe:/a:pallets": the cpe22 pattern accepts it
cpe22_short == join(<<":">>, <<s_cpe, <<"/", "a">>, s_pallets>>)
\* "pkg:pypi/pallets/flask@3.0"
purl_flask_3_0 == <<"p","k","g",":","p","y","p","i","/","p","a","l","l","e","t","s","/","f","l","a","s","k","@","3",".","0">>
\* "pkg:pypi/flask@3.0": one '/' only, the purl pattern rejects it
purl_no_namespace == <<"p","k","g",":","p","y","p","i","/","f","l","a","s","k","@","3",".","0">>
\* "http:x/y/z@1": the purl pattern accepts it
purl_http == <<"h","t","t","p",":","x","/","y","/","z","@","1">>

\* ------------------------------------------------------------------ state
VARIABLES
    cvedb,        \* the vendor/product index: product -> sequence of vendors
    sbom_pc,      \* SBOMManager: "none", "new", "returned" or "raised"
    filename,     \* SBOMManager.filename: the file it names
    validate,     \* SBOMManager.validate
    sbom_data,    \* SBOMManager.sbom_data: its ProductInfo keys
    scan,         \* what the last scan_file call did
    prefix_split, \* the last common_prefix_split call and its result
    js,           \* the generator of JavascriptParser.run_checker
    js_filename,  \* JavascriptParser.filename
    js_out,       \* the ScanInfo records the generator has yielded
    js_calls,     \* the (product, version) pairs passed to find_vendor
    py,           \* the generators of PythonParser.run_checker, by invocation
    py_filename,  \* PythonParser.filename
    py_out,       \* the ScanInfo records yielded, each with its invocation
    req,          \* the generator of PythonRequirementsParser.run_checker
    req_filename, \* PythonRequirementsParser.filename
    req_out,      \* the ScanInfo records the generator has yielded
    req_log,      \* the messages passed to logger.error
    cpe_decoded   \* the last pair of decode_cpe23 / decode_cpe22 calls

sbom_vars == <<sbom_pc, filename, validate, sbom_data, scan, prefix_split>>
js_vars == <<js, js_filename, js_out, js_calls>>
py_vars == <<py, py_filename, py_out>>
req_vars == <<req, req_filename, req_out, req_log>>
lang_vars == <<cpe_decoded, py_vars, req_vars>>
vars == <<cvedb, sbom_vars, js_vars, lang_vars>>

\* cvedb.get_vendor_product_pairs(product): the vendors, in index order.
get_vendor_product_pairs(product) ==
    IF product \in DOMAIN cvedb THEN cvedb[product] ELSE <<>>

UNKNOWN == <<"U","N","K","N","O","W","N">>

\* get_vendor without the UNKNOWN default.
get_vendor_NoDefault(product) == get_vendor_product_pairs(product)

get_vendor(product) ==
    LET vendor_package_pair == get_vendor_product_pairs(product)
    IN  IF vendor_package_pair # <<>> THEN vendor_package_pair ELSE <<UNKNOWN>>

\* ----------------------------------------------------------- the decoders
\* A call either returns val or raises exc ("" when it returns).
Return(v) == [exc |-> "", val |-> v]
Raise(e) == [exc |-> e, val |-> <<None, None, None>>]

\* decode_cpe22 reading the fields at the places of a CPE 2.3 string.
decode_cpe22_Cpe23Fields(cpe22) ==
    LET cpe == split(cpe22, ":")
    IN  IF Len(cpe) < 6 THEN Raise("IndexError")
        ELSE Return(<<OrNone(cpe[4]), OrNone(cpe[5]), OrNone(cpe[6])>>)

decode_cpe22(cpe22) ==
    LET cpe == split(cpe22, ":")
    IN  IF Len(cpe) < 5 THEN Raise("IndexError")
        ELSE Return(<<OrNone(cpe[3]), OrNone(cpe[4]), OrNone(cpe[5])>>)

decode_cpe23(cpe23) ==
    LET cpe == split(cpe23, ":")
    IN  IF Len(cpe) < 6 THEN Raise("IndexError")
        ELSE Return(<<OrNone(cpe[4]), OrNone(cpe[5]), OrNone(cpe[6])>>)

s_pkg == <<"p","k","g">>

\* PackageURL.from_string(purl).to_dict().get("version"): the scheme before
\* the first ':' must be pkg (ValueError otherwise); the subpath after '#'
\* and the qualifiers after '?' are cut off and the version is what follows
\* the last '@' of the rest.
PurlVersion(purl) ==
    LET colon == Find(purl, ":")
        rest == DropFirst(purl, colon)
        hash == Find(rest, "#")
        nosub == IF hash = 0 THEN rest ELSE SubSeq(rest, 1, hash - 1)
        quest == Find(nosub, "?")
        path == IF quest = 0 THEN nosub ELSE SubSeq(nosub, 1, quest - 1)
        at == RFind(path, "@")
    IN  IF colon = 0 \/ SubSeq(purl, 1, colon - 1) # s_pkg THEN Raise("ValueError")
        ELSE IF at = 0 THEN Return(None)
        ELSE Return(DropFirst(path, at))

decode_purl(purl) ==
    LET version == PurlVersion(purl)
    IN  IF version.exc # "" THEN Raise(version.exc)
        ELSE Return(<<None, None, OrNone(version.val)>>)

NoDecode == [called |-> FALSE, vendor |-> <<>>, product |-> <<>>, version |-> <<>>,
             cpe23 |-> <<>>, cpe22 |-> <<>>,
             triple23 |-> Return(<<None, None, None>>),
             triple22 |-> Return(<<None, None, None>>)]

\* decode_cpe23 and decode_cpe22 called on the CPE 2.3 and the CPE 2.2 string
\* that carry the same vendor, product and version fields.
DecodeCpe(vendor, product, version) ==
    /\ cpe_decoded' = [called |-> TRUE, vendor |-> vendor, product |-> product,
                   version |-> version,
                   cpe23 |-> Cpe23String(vendor, product, version),
                   cpe22 |-> Cpe22String(vendor, product, version),
                   triple23 |-> decode_cpe23(Cpe23String(vendor, product, version)),
                   triple22 |-> decode_cpe22(Cpe22String(vendor, product, version))]
    /\ UNCHANGED <<cvedb, sbom_vars, js_vars, py_vars, req_vars>>

\* The dict key the reference is decoded under, "" for a reference the loop
\* passes over.
RefKey(ref_type, ref_string) ==
    IF ref_type = t_cpe23Type /\ is_valid_string(t_cpe23, ref_string)
        THEN "cpe23Type"
    ELSE IF ref_type = t_cpe22Type /\ is_valid_string(t_cpe22, ref_string)
        THEN "cpe22Type"
    ELSE IF ref_type = t_purl /\ is_valid_string(t_purl, ref_string)
        THEN "purl"
    ELSE ""

DecodeAs(key, ref_string) ==
    IF key = "cpe23Type" THEN decode_cpe23(ref_string)
    ELSE IF key = "cpe22Type" THEN decode_cpe22(ref_string)
    ELSE decode_purl(ref_string)

\* The loop of parse_ext_ref from reference i on: the decoded dict, or the
\* exception of the first decoder that raises.
RECURSIVE DecodeRefs(_, _, _)
DecodeRefs(ext_ref, i, decoded) ==
    IF i > Len(ext_ref) THEN [exc |-> "", decoded |-> decoded]
    ELSE Bind(RefKey(ext_ref[i][2], ext_ref[i][3]), LAMBDA key :
            IF key = "" THEN DecodeRefs(ext_ref, i + 1, decoded)
            ELSE Bind(DecodeAs(key, ext_ref[i][3]), LAMBDA got :
                    IF got.exc # "" THEN [exc |-> got.exc, decoded |-> decoded]
                    ELSE DecodeRefs(ext_ref, i + 1, (key :> got.val) @@ decoded)))

\* dict.get(key, default)
Get(d, key, default) == IF key \in DOMAIN d THEN d[key] ELSE default

parse_ext_ref(ext_ref) ==
    Bind(DecodeRefs(ext_ref, 1, <<>>), LAMBDA r :
        IF r.exc # "" THEN Raise(r.exc)
        ELSE Return(Get(r.decoded, "cpe23Type",
                        Get(r.decoded, "cpe22Type",
                            Get(r.decoded, "purl", <<None, None, None>>)))))

\* ------------------------------------------------------------- parse_sbom
\* One pass of the package loop: the module [vendor, package_name, version]
\* the package contributes (keep tells whether it is appended), or the
\* exception parse_ext_ref raised.
PackageModule(package) ==
    Bind(IF package.externalreference # NoExtRef
         THEN parse_ext_ref(package.externalreference)
         ELSE Return(<<None, None, None>>), LAMBDA ref :
        LET vendor == ref.val[1]
            package_name == IF ~Truthy(ref.val[2]) THEN package.name ELSE ref.val[2]
            version == IF ~Truthy(ref.val[3]) /\ package.version # None
                       THEN package.version ELSE ref.val[3]
        IN  [exc |-> ref.exc,
             keep |-> Truthy(version),
             module |-> <<vendor, package_name, version>>])

RECURSIVE PackageLoop(_, _, _)
PackageLoop(packages, i, modules) ==
    IF i > Len(packages) THEN [exc |-> "", modules |-> modules]
    ELSE Bind(PackageModule(packages[i]), LAMBDA r :
            IF r.exc # "" THEN [exc |-> r.exc, modules |-> modules]
            ELSE PackageLoop(packages, i + 1,
                     IF r.keep THEN Append(modules, r.module) ELSE modules))

\* The validator consulted for every file of a validating manager.
ValidatorRuns_AnyFile == validate

\* validate_spdx / validate_cyclonedx are consulted only for an .xml file of
\* a validating manager.
ValidatorRuns == validate /\ filename.xml

\* parse_sbom(), valid_xml being the verdict the validator gives if consulted.
parse_sbom(valid_xml) ==
    IF ValidatorRuns /\ ~valid_xml
    THEN [exc |-> "", modules |-> <<>>]
    ELSE PackageLoop(filename.packages, 1, <<>>)

RECURSIVE Concat(_)
Concat(ss) == IF ss = <<>> THEN <<>> ELSE Head(ss) \o Concat(Tail(ss))

\* ----------------------------------------------------- common_prefix_split
common_prefix == <<
    <<"p","e","r","l","-">>,
    <<"g","o","l","a","n","g","-">>,
    <<"r","u","b","y","g","e","m","-">>,
    <<"p","y","t","h","o","n","-">>,
    <<"p","y","3","-">>,
    <<"p","y","t","h","o","n","3","-">>,
    <<"p","y","t","h","o","n","2","-">>,
    <<"r","u","s","t","-">>,
    <<"n","o","d","e","j","s","-">> >>

\* len(v) > 1 or (len(v) == 1 and v[0] != "UNKNOWN")
RealVendors(v) == Len(v) > 1 \/ (Len(v) = 1 /\ v[1] # UNKNOWN)

\* The prefixes, in list order, the product starts with; the loop breaks at
\* the first.
MatchingPrefixes(product) ==
    {i \in 1..Len(common_prefix) : startswith(product, common_prefix[i])}

FirstPrefix(product) ==
    common_prefix[CHOOSE i \in MatchingPrefixes(product) :
                     \A j \in MatchingPrefixes(product) : i <= j]

\* The rows of a segment when the vendor UNKNOWN counts as a vendor.
SegmentRows_KeepUnknown(sp, version) ==
    LET temp == get_vendor(sp)
    IN  [i \in 1..Len(temp) |-> <<temp[i], sp, version>>]

\* The rows one '-' segment adds.
SegmentRows(sp, version) ==
    LET temp == get_vendor(sp)
    IN  IF RealVendors(temp)
        THEN [i \in 1..Len(temp) |-> <<temp[i], sp, version>>]
        ELSE <<>>

common_prefix_split(product, version) ==
    LET has_prefix == MatchingPrefixes(product) # {}
        common_prefix_product ==
            IF has_prefix THEN DropFirst(product, Len(FirstPrefix(product)))
            ELSE product
        common_prefix_vendor == get_vendor(common_prefix_product)
        found_common_prefix == has_prefix /\ RealVendors(common_prefix_vendor)
        splitted_product == split(product, "-")
    IN  IF found_common_prefix
        THEN [i \in 1..Len(common_prefix_vendor) |->
                 <<common_prefix_vendor[i], common_prefix_product, version>>]
        ELSE Concat([k \in 1..Len(splitted_product) |->
                        SegmentRows(splitted_product[k], version)])

\* -------------------------------------------------------------- scan_file
\* scan_file routing the vendor-less modules through common_prefix_split.
ModuleRows_PrefixFallback(m) ==
    LET product == lower(m[2])
        vendor_set == get_vendor(product)
    IN  IF m[1] = None
        THEN IF vendor_set = <<UNKNOWN>>
             THEN common_prefix_split(product, m[3])
             ELSE [i \in 1..Len(vendor_set) |-> <<vendor_set[i], product, m[3]>>]
        ELSE << <<m[1], product, m[3]>> >>


\* The ProductInfo rows one module adds to parsed_data.
ModuleRows(m) ==
    LET product == lower(m[2])
        vendor_set == get_vendor(product)
    IN  IF m[1] = None
        THEN [i \in 1..Len(vendor_set) |-> <<vendor_set[i], product, m[3]>>]
        ELSE << <<m[1], product, m[3]>> >>

\* The products scan_file asks the index about for one module.
ModuleLookups(m) == IF m[1] = None THEN <<lower(m[2])>> ELSE <<>>

Range(f) == {f[x] : x \in DOMAIN f}

\* parsed_data after the loop over the modules.
ParsedData(modules) == Concat([i \in 1..Len(modules) |-> ModuleRows(modules[i])])

\* The index queries of that loop, in order.
Lookups(modules) == Concat([i \in 1..Len(modules) |-> ModuleLookups(modules[i])])

\* validated: "skipped", or the verdict "valid" / "invalid" of the validator.
NoScan == [exc |-> "", validated |-> "skipped", modules |-> <<>>,
           parsed_data |-> <<>>, lookups |-> <<>>]

\* SBOMManager.__init__(filename, validate=v)
SBOMManagerInit(file, v) ==
    /\ sbom_pc = "none"
    /\ sbom_pc' = "new"
    /\ filename' = file
    /\ validate' = v
    /\ sbom_data' = {}
    /\ UNCHANGED <<cvedb, scan, prefix_split, js_vars, lang_vars>>

\* SBOMManager.scan_file(): a missing file gives no module; an exception of
\* parse_sbom other than KeyError, FileNotFoundError and ParseError leaves
\* scan_file before any row is stored.
ScanFile(valid_xml) ==
    /\ sbom_pc = "new"
    /\ Bind(IF filename.exists THEN parse_sbom(valid_xml)
            ELSE [exc |-> "", modules |-> <<>>], LAMBDA parsed :
        LET modules == parsed.modules
            validated == IF ~(filename.exists /\ ValidatorRuns) THEN "skipped"
                         ELSE IF valid_xml THEN "valid" ELSE "invalid"
        IN  IF parsed.exc # ""
            THEN /\ sbom_pc' = "raised"
                 /\ scan' = [NoScan EXCEPT !.exc = parsed.exc,
                                           !.validated = validated]
                 /\ UNCHANGED sbom_data
            ELSE /\ sbom_pc' = "returned"
                 /\ scan' = [exc |-> "", validated |-> validated,
                             modules |-> modules,
                             parsed_data |-> ParsedData(modules),
                             lookups |-> Lookups(modules)]
                 /\ sbom_data' = sbom_data \cup Range(ParsedData(modules)))
    /\ UNCHANGED <<cvedb, filename, validate, prefix_split, js_vars, lang_vars>>

\* SBOMManager.common_prefix_split as an operation
NoSplit == [called |-> FALSE, product |-> <<>>, version |-> <<>>,
            parsed_data |-> <<>>]

\* SBOMManager.common_prefix_split(product, version), called on a manager.
CommonPrefixSplit(product, version) ==
    /\ sbom_pc # "none"
    /\ prefix_split' = [called |-> TRUE, product |-> product, version |-> version,
                        parsed_data |-> common_prefix_split(product, version)]
    /\ UNCHANGED <<cvedb, sbom_pc, filename, validate, sbom_data, scan, js_vars, lang_vars>>


\* ------------------------------------------------------- JavascriptParser
\* A key that a JSON object does not have.
Missing == <<None>>

\* What stands for a JSON object where a version string is expected.
s_object == <<"{...}">>

\* Parser.find_vendor(product, version) of parsers/__init__.py: the ScanInfo
\* records (ProductInfo, file path), one per vendor of the index, None when
\* the index holds no vendor for the product.
find_vendor(product, version, self_filename) ==
    IF get_vendor_product_pairs(product) = <<>> THEN None
    ELSE [i \in 1..Len(get_vendor_product_pairs(product)) |->
             <<<<get_vendor_product_pairs(product)[i], product, version>>,
               self_filename>>]

\* What `if vendor is not None: yield from vendor` yields.
YieldFrom(vendor) == IF vendor = None THEN <<>> ELSE vendor

get_package_name(name) ==
    IF Find(name, "/") # 0 THEN split(name, "/")[Len(split(name, "/"))] ELSE name

\* The requires loop without the test for the wildcard.
RECURSIVE RequiresPairs_Wildcards(_)
RequiresPairs_Wildcards(requires) ==
    IF requires = <<>> THEN <<>>
    ELSE << <<get_package_name(requires[1][1]), requires[1][2]>> >>
         \o RequiresPairs_Wildcards(Tail(requires))

\* The pairs the loop over the requires map appends: every entry but the
\* wildcards.
RECURSIVE RequiresPairs(_)
RequiresPairs(requires) ==
    IF requires = <<>> THEN <<>>
    ELSE (IF requires[1][2] = s_star THEN <<>>
          ELSE << <<get_package_name(requires[1][1]), requires[1][2]>> >>)
         \o RequiresPairs(Tail(requires))

\* The loop over data["packages"].items() appending the requires entries of a
\* package before the package itself.
RECURSIVE PackagesLoop_RequiresFirst(_, _, _)
PackagesLoop_RequiresFirst(packages, i, product_version_mapping) ==
    IF i > Len(packages)
    THEN [exc |-> "", mapping |-> product_version_mapping]
    ELSE IF packages[i][2].kind # "obj"
    THEN [exc |-> "AttributeError", mapping |-> product_version_mapping]
    ELSE PackagesLoop_RequiresFirst(packages, i + 1,
             (product_version_mapping \o RequiresPairs(packages[i][2].requires))
             \o << <<get_package_name(packages[i][1]), packages[i][2].version>> >>)

\* lockfileVersion >= 2: the loop over data["packages"].items() from entry i.
RECURSIVE PackagesLoop(_, _, _)
PackagesLoop(packages, i, product_version_mapping) ==
    IF i > Len(packages)
    THEN [exc |-> "", mapping |-> product_version_mapping]
    ELSE IF packages[i][2].kind # "obj"
    THEN [exc |-> "AttributeError", mapping |-> product_version_mapping]
    ELSE PackagesLoop(packages, i + 1,
             Append(product_version_mapping,
                    <<get_package_name(packages[i][1]), packages[i][2].version>>)
             \o RequiresPairs(packages[i][2].requires))

\* The version the try/except of the legacy branch assigns: the version
\* field, or the value itself when it is a string or has no version field.
LegacyVersion(value) ==
    IF value.kind = "obj" /\ value.version # None THEN value.version
    ELSE IF value.kind = "obj" THEN s_object
    ELSE value.version

\* lockfileVersion 1: the loop over data["dependencies"] from entry i.
RECURSIVE DependenciesLoop(_, _, _)
DependenciesLoop(dependencies, i, product_version_mapping) ==
    IF i > Len(dependencies)
    THEN [exc |-> "", mapping |-> product_version_mapping]
    ELSE IF dependencies[i][2].kind # "obj"
    THEN [exc |-> "AttributeError",
          mapping |-> Append(product_version_mapping,
                             <<get_package_name(dependencies[i][1]),
                               LegacyVersion(dependencies[i][2])>>)]
    ELSE DependenciesLoop(dependencies, i + 1,
             Append(product_version_mapping,
                    <<get_package_name(dependencies[i][1]),
                      LegacyVersion(dependencies[i][2])>>)
             \o RequiresPairs(dependencies[i][2].requires))

\* product_version_mapping as run_checker builds it, or the exception that
\* ends the building.
BuildMapping(data) ==
    IF data.lockfileVersion = 0 THEN [exc |-> "", mapping |-> <<>>]
    ELSE IF data.lockfileVersion >= 2
    THEN (IF data.packages = Missing THEN [exc |-> "KeyError", mapping |-> <<>>]
          ELSE PackagesLoop(data.packages, 1, <<>>))
    ELSE (IF data.dependencies = Missing THEN [exc |-> "KeyError", mapping |-> <<>>]
          ELSE DependenciesLoop(data.dependencies, 1, <<>>))

NoRecord == <<<<None, None, None>>, None>>

NoGenerator == [pc |-> "none", file |-> <<>>, phase |-> "start", pending |-> <<>>,
                mapping |-> <<>>, idx |-> 1, calls |-> <<>>, exc |-> "",
                yielded |-> NoRecord]

\* The generator g run from where it stands to its next yield, its end or
\* its exception; self_filename is the parser's filename attribute.
RECURSIVE Advance(_, _, _)
Advance(g, data, self_filename) ==
    IF g.pending # <<>>
    THEN [g EXCEPT !.pc = "suspended", !.yielded = Head(g.pending),
                   !.pending = Tail(g.pending)]
    ELSE IF g.phase = "start"
    THEN IF data.name # None /\ data.version # None
         THEN Advance([g EXCEPT !.phase = "top",
                                !.pending = YieldFrom(find_vendor(
                                    data.name, data.version, self_filename)),
                                !.calls = Append(g.calls, <<data.name, data.version>>)],
                      data, self_filename)
         ELSE Advance([g EXCEPT !.phase = "top"], data, self_filename)
    ELSE IF g.phase = "top"
    THEN Bind(BuildMapping(data), LAMBDA built :
            IF built.exc # ""
            THEN [g EXCEPT !.pc = "raised", !.exc = built.exc,
                           !.mapping = built.mapping, !.yielded = NoRecord]
            ELSE Advance([g EXCEPT !.phase = "deps", !.mapping = built.mapping,
                                   !.idx = 1],
                         data, self_filename))
    ELSE IF g.idx > Len(g.mapping)
    THEN [g EXCEPT !.pc = "done", !.yielded = NoRecord]
    ELSE Advance([g EXCEPT !.pending = YieldFrom(find_vendor(
                                 g.mapping[g.idx][1], g.mapping[g.idx][2],
                                 self_filename)),
                           !.calls = Append(g.calls, g.mapping[g.idx]),
                           !.idx = g.idx + 1],
                 data, self_filename)

\* JavascriptParser.run_checker(filename): the call makes the generator; its
\* body starts at the first next().
RunChecker(file) ==
    /\ js.pc = "none"
    /\ js' = [NoGenerator EXCEPT !.pc = "created", !.file = file]
    /\ UNCHANGED <<cvedb, sbom_vars, js_filename, js_out, js_calls, lang_vars>>

\* next() on the generator: the first one assigns self.filename and loads
\* the file.
JsNext ==
    /\ js.pc \in {"created", "suspended"}
    /\ js_filename' = IF js.pc = "created" THEN js.file.path ELSE js_filename
    /\ Bind(Advance(js, js.file.data,
                    IF js.pc = "created" THEN js.file.path ELSE js_filename),
            LAMBDA g :
                /\ js' = g
                /\ js_calls' = g.calls
                /\ js_out' = IF g.pc = "suspended" THEN Append(js_out, g.yielded)
                             ELSE js_out)
    /\ UNCHANGED <<cvedb, sbom_vars, lang_vars>>


\* ----------------------------------------------------------- PythonParser
\* The number of lines "\n".join(lines.splitlines()[:3]) keeps.
HeaderLength == 3

\* cve_bin_tool.strings.parse_strings(filename): the lines of the file.
parse_strings(file) == file.lines

\* The header without the cut at three lines.
Header_WholeFile(lines) == lines

\* lines.splitlines()[:3]
Header(lines) ==
    IF Len(lines) <= HeaderLength THEN lines ELSE SubSeq(lines, 1, HeaderLength)

\* The start of the first occurrence of field in line at or after i, 0 when
\* there is none.
RECURSIVE FindField(_, _, _)
FindField(line, field, i) ==
    IF i + Len(field) - 1 > Len(line) THEN 0
    ELSE IF SubSeq(line, i, i + Len(field) - 1) = field THEN i
    ELSE FindField(line, field, i + 1)

\* The pattern "<field>(.+)$" matched anywhere in the line.
LineMatch_Unanchored(line, field) ==
    IF FindField(line, field, 1) # 0
       /\ FindField(line, field, 1) + Len(field) <= Len(line)
    THEN DropFirst(line, FindField(line, field, 1) + Len(field) - 1)
    ELSE None

\* group(1) of the pattern "^<field>(.+)$" on one line, None when the line
\* does not match.
LineMatch(line, field) ==
    IF startswith(line, field) /\ Len(line) > Len(field)
    THEN DropFirst(line, Len(field))
    ELSE None

\* search(compile(r"^<field>(.+)$", MULTILINE), lines): group(1) of the first
\* line that matches, None when search returns None.
RECURSIVE Search(_, _, _)
Search(field, lines, i) ==
    IF i > Len(lines) THEN None
    ELSE IF LineMatch(lines[i], field) # None THEN LineMatch(lines[i], field)
    ELSE Search(field, lines, i + 1)

NoPyGenerator == [pc |-> "none", file |-> [path |-> None, lines |-> <<>>], product |-> None, version |-> None,
                  vendor_package_pair |-> <<>>, idx |-> 1, exc |-> ""]

\* The generator from the top of the loop over vendor_package_pair: it
\* yields the record of the next pair, attributed to the filename the parser
\* holds now, or ends.
PyLoop(g, self_filename) ==
    IF g.idx > Len(g.vendor_package_pair)
    THEN [gen |-> [g EXCEPT !.pc = "done"], yielded |-> <<>>]
    ELSE [gen |-> [g EXCEPT !.pc = "suspended", !.idx = g.idx + 1],
          yielded |-> << <<<<g.vendor_package_pair[g.idx], g.product, g.version>>,
                           self_filename>> >>]

\* The generator from its start: the header is read and searched;
\* AttributeError, raised by .group(1) on None, is caught and ends it.
PyStart(g) ==
    Bind(Header(parse_strings(g.file)), LAMBDA lines :
        IF Search(s_Name, lines, 1) = None \/ Search(s_Version, lines, 1) = None
        THEN [gen |-> [g EXCEPT !.pc = "done"], yielded |-> <<>>]
        ELSE PyLoop([g EXCEPT !.product = Search(s_Name, lines, 1),
                              !.version = Search(s_Version, lines, 1),
                              !.vendor_package_pair =
                                  get_vendor_product_pairs(Search(s_Name, lines, 1)),
                              !.idx = 1],
                    g.file.path))

\* PythonParser.run_checker(filename), invocation c: the call makes the
\* generator; its body starts at the first next().
PyRunChecker(c, file) ==
    /\ py[c].pc = "none"
    /\ py' = [py EXCEPT ![c] = [NoPyGenerator EXCEPT !.pc = "created", !.file = file]]
    /\ UNCHANGED <<cvedb, sbom_vars, js_vars, py_filename, py_out, cpe_decoded, req_vars>>

\* next() on the generator of invocation c.
PyNext(c) ==
    /\ py[c].pc \in {"created", "suspended"}
    /\ py_filename' = IF py[c].pc = "created" THEN py[c].file.path ELSE py_filename
    /\ Bind(IF py[c].pc = "created" THEN PyStart(py[c]) ELSE PyLoop(py[c], py_filename),
            LAMBDA r :
                /\ py' = [py EXCEPT ![c] = r.gen]
                /\ py_out' = py_out \o [i \in 1..Len(r.yielded) |->
                                           [call |-> c, record |-> r.yielded[i]]])
    /\ UNCHANGED <<cvedb, sbom_vars, js_vars, cpe_decoded, req_vars>>


\* ----------------------------------------------- PythonRequirementsParser
DigitChars == <<"0","1","2","3","4","5","6","7","8","9">>

RECURSIVE ToInt(_)
ToInt(s) ==
    IF s = <<>> THEN 0
    ELSE 10 * ToInt(SubSeq(s, 1, Len(s) - 1))
         + (CHOOSE d \in 0..9 : DigitChars[d + 1] = s[Len(s)])

\* packaging.version.parse of a release "N(.N)*": its numbers.
parse_version(version) ==
    [i \in 1..Len(split(version, ".")) |-> ToInt(split(version, ".")[i])]

\* a < b for two parsed versions: the first place they differ at decides,
\* missing places counting as 0.
RECURSIVE VersionLess(_, _, _)
VersionLess(a, b, i) ==
    IF i > Len(a) /\ i > Len(b) THEN FALSE
    ELSE Bind(<<IF i <= Len(a) THEN a[i] ELSE 0, IF i <= Len(b) THEN b[i] ELSE 0>>,
              LAMBDA places :
                  IF places[1] # places[2] THEN places[1] < places[2]
                  ELSE VersionLess(a, b, i + 1))

\* The messages run_checker passes to logger.error.
m_output == "e.output"
m_not_scanned == "not scanned: pip --dry-run was unable to get package versions."
m_pip_required == "pip version >= 22.2 is required to scan Python requirements files."

NoReqGenerator == [pc |-> "none", file |-> None,
                   env |-> [first |-> "ok", second |-> "ok", pip |-> None,
                            install |-> <<>>],
                   pending |-> <<>>, idx |-> 1, exc |-> "",
                   log |-> <<>>, yielded |-> NoRecord]

\* The except branch: e.output is logged, pip3 --version is run (env.pip is
\* None when that call fails too) and the two messages are logged for a pip
\* older than 22.2. Nothing is yielded.
ResolverFailed(g) ==
    IF g.env.pip = None
    THEN [g EXCEPT !.pc = "raised", !.exc = "CalledProcessError",
                   !.log = <<m_output>>]
    ELSE IF VersionLess(parse_version(split(g.env.pip, " ")[2]),
                        parse_version(s_22_2), 1)
    THEN [g EXCEPT !.pc = "done", !.log = <<m_output, m_not_scanned, m_pip_required>>]
    ELSE [g EXCEPT !.pc = "done", !.log = <<m_output>>]

\* The loop over lines["install"] from where the generator stands to its
\* next yield or its end.
RECURSIVE ReqLoop(_, _)
ReqLoop(g, self_filename) ==
    IF g.pending # <<>>
    THEN [g EXCEPT !.pc = "suspended", !.yielded = Head(g.pending),
                   !.pending = Tail(g.pending)]
    ELSE IF g.idx > Len(g.env.install)
    THEN [g EXCEPT !.pc = "done", !.yielded = NoRecord]
    ELSE ReqLoop([g EXCEPT !.pending = YieldFrom(find_vendor(
                                   g.env.install[g.idx][1], g.env.install[g.idx][2],
                                   self_filename)),
                           !.idx = g.idx + 1],
                 self_filename)

\* The generator from its start: the first pip3 install --dry-run, then the
\* except branch or, in the else branch, the second pip3 install --dry-run,
\* which no handler surrounds.
ReqStart(g, self_filename) ==
    IF g.env.first = "fail" THEN ResolverFailed(g)
    ELSE IF g.env.second = "fail"
    THEN [g EXCEPT !.pc = "raised", !.exc = "CalledProcessError"]
    ELSE ReqLoop(g, self_filename)

\* PythonRequirementsParser.run_checker(filename): the call makes the
\* generator; env is what the pip3 subprocesses will do.
ReqRunChecker(file, env) ==
    /\ req.pc = "none"
    /\ req' = [NoReqGenerator EXCEPT !.pc = "created", !.file = file, !.env = env]
    /\ UNCHANGED <<cvedb, sbom_vars, js_vars, py_vars, cpe_decoded,
                   req_filename, req_out, req_log>>

\* next() on the generator: the first one assigns self.filename and runs
\* pip3.
ReqNext ==
    /\ req.pc \in {"created", "suspended"}
    /\ req_filename' = IF req.pc = "created" THEN req.file ELSE req_filename
    /\ Bind(IF req.pc = "created" THEN ReqStart(req, req.file)
            ELSE ReqLoop(req, req_filename),
            LAMBDA g :
                /\ req' = g
                /\ req_log' = req_log \o (IF req.pc = "created" THEN g.log ELSE <<>>)
                /\ req_out' = IF g.pc = "suspended" THEN Append(req_out, g.yielded)
                              ELSE req_out)
    /\ UNCHANGED <<cvedb, sbom_vars, js_vars, py_vars, cpe_decoded>>

\* ----------------------------------------------------------------- inputs
\* The vendor/product indexes of the model.
Indexes == {
    (s_flask :> <<s_pallets, s_armin>>) @@ (s_python :> <<s_psf>>)
        @@ (s_core :> <<s_actions>>) @@ (s_cache :> <<s_actions, s_github>>)
        @@ (s_zstandard :> <<s_facebook, s_indygreg>>),
    (s_flask :> <<s_pallets>>) @@ (s_python_flask :> <<s_pypi, s_pallets>>)
        @@ (s_core :> <<s_actions>>) @@ (s_app :> <<s_acme>>)
        @@ (s_zstandard :> <<s_facebook>>) }

RefPool == {
    <<s_SECURITY, t_cpe23Type, Cpe23String(s_Pallets, s_Flask, v_2_0)>>,
    <<s_SECURITY, t_cpe23Type, cpe23_short>>,
    <<s_SECURITY, t_cpe22Type, Cpe22String(s_pallets, s_flask, v_1_1)>>,
    <<s_SECURITY, t_cpe22Type, Cpe22String(s_pallets, s_flask, <<>>)>>,
    <<s_SECURITY, t_cpe22Type, cpe22_short>>,
    <<s_PACKAGE_MANAGER, t_purl, purl_flask_3_0>>,
    <<s_PACKAGE_MANAGER, t_purl, purl_no_namespace>>,
    <<s_PACKAGE_MANAGER, t_purl, purl_http>> }

\* The externalreference of a package: absent, or a list of references.
RefLists == {NoExtRef} \cup UNION {[1..n -> RefPool] : n \in 0..MaxRefs}

Packages ==
    [name : {s_Python_Flask, <<>>},
     version : {None, <<>>, v_1_0},
     externalreference : RefLists]

\* The packages that may follow the first one of a document.
MorePackages ==
    [name : {s_six}, version : {None, v_1_1}, externalreference : {NoExtRef}]

Documents ==
    UNION {{<<first>> \o rest : first \in Packages,
                               rest \in [1..n -> MorePackages]}
              : n \in 0..(MaxPackages - 1)}

\* A file name: whether the file exists, whether the name ends in .xml, and
\* the packages the SBOM parser reads from it.
NoFile == [exists |-> FALSE, xml |-> FALSE, packages |-> <<>>]

Files == {NoFile} \cup [exists : {TRUE}, xml : BOOLEAN, packages : Documents]

SplitProducts == {
    s_flask, s_six, s_python_flask,
    join(<<"-">>, <<s_flask, s_python>>),
    join(<<"-">>, <<s_python, s_six>>),
    join(<<"-">>, <<s_python, <<>> >>),
    join(<<"-">>, <<s_six, s_six>>),
    <<"p","y","3","-">> \o s_flask,
    <<"p","y","t","h","o","n","3","-">> \o s_flask,
    <<"p","y","t","h","o","n","2","-">> \o s_six,
    <<"r","u","s","t","-">> \o s_python_flask,
    <<"p","e","r","l","-">> \o s_python,
    <<"g","o","l","a","n","g","-">> \o s_flask,
    <<"r","u","b","y","g","e","m","-">> \o s_six,
    <<"n","o","d","e","j","s","-">> \o s_flask }

SplitVersions == {v_1_0, v_2_0}


\* The values of the packages / dependencies map of a lock file: an object
\* with a version (and requires), an object without version, a plain string.
EntryValues == {
    [kind |-> "obj", version |-> v_1_0, requires |-> <<>>],
    [kind |-> "obj", version |-> v_2_0,
     requires |-> << <<n_core, v_1_1>>, <<s_dep, s_star>> >>],
    [kind |-> "obj", version |-> None, requires |-> <<>>],
    [kind |-> "str", version |-> v_1_0, requires |-> <<>>] }

EntryKeys == {k_core, s_cache, k_dep}

\* The maps of at most MaxEntries entries, in document order, keys distinct.
RECURSIVE EntryLists(_)
EntryLists(n) ==
    IF n = 0 THEN {<<>>}
    ELSE EntryLists(n - 1) \cup
         {Append(l, <<k, v>>) : l \in {x \in EntryLists(n - 1) : Len(x) = n - 1},
                                k \in EntryKeys, v \in EntryValues}

DistinctKeys(l) == \A i, j \in 1..Len(l) : i # j => l[i][1] # l[j][1]

EntryMaps == {l \in EntryLists(MaxEntries) : DistinctKeys(l)} \cup {Missing}

\* package-lock.json contents: lockfileVersion 0 stands for an absent one.
LockData ==
    {[name |-> nv[1], version |-> nv[2], lockfileVersion |-> 0,
      packages |-> Missing, dependencies |-> Missing]
        : nv \in {<<None, None>>, <<s_app, v_0_1>>}}
    \cup {[name |-> nv[1], version |-> nv[2], lockfileVersion |-> 1,
           packages |-> Missing, dependencies |-> m]
             : nv \in {<<None, None>>, <<s_app, v_0_1>>}, m \in EntryMaps}
    \cup {[name |-> nv[1], version |-> nv[2], lockfileVersion |-> lv,
           packages |-> m, dependencies |-> Missing]
             : nv \in {<<None, None>>, <<s_app, v_0_1>>}, m \in EntryMaps,
               lv \in {2, 3}}

LockFiles == [path : {s_package_lock}, data : LockData]

\* The fields of the identities decoded: the NasmChecker identity, mixed
\* case, empty fields.
DecodeVendors == {s_nasm, s_Pallets, s_pallets, s_psf, <<>>}
DecodeProducts == {s_netwide_assembler, s_Flask, s_flask, s_six, <<>>}
DecodeVersions == {v_2_15, v_1_0, v_2_0, <<>>}

\* The lines of PKG-INFO / METADATA files.
MetadataLines == {l_metadata_version, l_name_zstandard, l_name_flask, l_version,
                  l_indented_name, l_summary}

MetadataFiles ==
    [path : {s_PKG_INFO}, lines : UNION {[1..n -> MetadataLines] : n \in 0..MaxLines}]

\* The invocations of run_checker on one parser, and the files they run on.
Invocations == {1, 2}

InterleavedFiles == {
    [path |-> s_PKG_INFO, lines |-> <<l_metadata_version, l_name_zstandard, l_version>>],
    [path |-> s_METADATA, lines |-> <<l_name_flask, l_version>>],
    [path |-> s_FAIL_PKG_INFO, lines |-> <<l_metadata_version, l_summary>>] }

\* No other invocation runs on the file.
OtherFile(c, file) ==
    \A d \in Invocations \ {c} : py[d].pc = "none" \/ py[d].file.path # file.path

\* What pip3 install --report gives under "install": name and version of
\* each package, at most MaxInstall of them.
InstallLines == {<<s_flask, v_1_0>>, <<s_six, v_1_1>>, <<s_zstandard, v_0_18_0>>}

\* What the pip3 subprocesses of one run_checker do: the first and the second
\* pip3 install --dry-run succeed or fail, pip3 --version prints a version or
\* fails (None).
ResolverEnvs ==
    [first : {"ok", "fail"}, second : {"ok", "fail"},
     pip : {pip_20_0_2, pip_22_1_2, pip_22_2, pip_23_0_1, None},
     install : UNION {[1..n -> InstallLines] : n \in 0..MaxInstall}]

\* ---------------------------------------------------------- specifications
Init ==
    /\ cvedb \in Indexes
    /\ sbom_pc = "none"
    /\ filename = NoFile
    /\ validate = TRUE
    /\ sbom_data = {}
    /\ scan = NoScan
    /\ prefix_split = NoSplit
    /\ js = NoGenerator
    /\ js_filename = None
    /\ js_out = <<>>
    /\ js_calls = <<>>
    /\ cpe_decoded = NoDecode
    /\ py = [c \in Invocations |-> NoPyGenerator]
    /\ py_filename = None
    /\ py_out = <<>>
    /\ req = NoReqGenerator
    /\ req_filename = None
    /\ req_out = <<>>
    /\ req_log = <<>>

NextSBOM ==
    \/ sbom_pc = "none" /\ \E file \in Files, v \in BOOLEAN : SBOMManagerInit(file, v)
    \/ \E valid_xml \in BOOLEAN : ScanFile(valid_xml)

NextSplit ==
    \/ \E v \in BOOLEAN : SBOMManagerInit(NoFile, v)
    \/ \E product \in SplitProducts, version \in SplitVersions :
           CommonPrefixSplit(product, version)

NextJS ==
    \/ js.pc = "none" /\ \E file \in LockFiles : RunChecker(file)
    \/ JsNext

NextDecode ==
    \E vendor \in DecodeVendors, product \in DecodeProducts, version \in DecodeVersions :
        DecodeCpe(vendor, product, version)

NextPy ==
    \/ py[1].pc = "none" /\ \E file \in MetadataFiles : PyRunChecker(1, file)
    \/ PyNext(1)

NextInterleaved ==
    \/ \E c \in Invocations, file \in InterleavedFiles :
           OtherFile(c, file) /\ PyRunChecker(c, file)
    \/ \E c \in Invocations : PyNext(c)

NextReq ==
    \/ req.pc = "none" /\ \E env \in ResolverEnvs : ReqRunChecker(s_requirements_txt, env)
    \/ ReqNext

Next ==
    NextSBOM \/ NextSplit \/ NextJS \/ NextDecode \/ NextPy \/ NextInterleaved \/ NextReq

\* SBOM ingestion: a manager is built on a file and scans it.
SpecSBOM == Init /\ [][NextSBOM]_vars

\* The vendor fallback helper called on a manager.
SpecSplit == Init /\ [][NextSplit]_vars

\* One run_checker generator of a JavascriptParser, consumed to its end.
SpecJS == Init /\ [][NextJS]_vars

\* The two CPE decoders applied to one identity after another.
SpecDecode == Init /\ [][NextDecode]_vars

\* One run_checker generator of a PythonParser, consumed to its end.
SpecPy == Init /\ [][NextPy]_vars

\* Two run_checker generators of one PythonParser on two files, consumed in
\* any interleaving.
SpecInterleaved == Init /\ [][NextInterleaved]_vars

\* One run_checker generator of a PythonRequirementsParser, consumed to its
\* end, under every behaviour of the pip3 subprocesses.
SpecReq == Init /\ [][NextReq]_vars

Spec == Init /\ [][Next]_vars

\* ------------------------------------------------------------------ claims
\* What the index holds for a product, read off the index itself.
IndexVendors(product) == IF product \in DOMAIN cvedb THEN cvedb[product] ELSE <<>>

Scanned == sbom_pc \in {"returned", "raised"}

\* The positions of ext_ref holding a reference of the given type whose
\* string passes the grammar check of that type.
ValidRefs(ext_ref, ref_type, string_type) ==
    {i \in 1..Len(ext_ref) :
        ext_ref[i][2] = ref_type /\ is_valid_string(string_type, ext_ref[i][3])}

\* The triple the preference order selects among the decoded references.
PreferredTriples(ext_ref) ==
    IF ValidRefs(ext_ref, t_cpe23Type, t_cpe23) # {}
    THEN {decode_cpe23(ext_ref[i][3]).val : i \in ValidRefs(ext_ref, t_cpe23Type, t_cpe23)}
    ELSE IF ValidRefs(ext_ref, t_cpe22Type, t_cpe22) # {}
    THEN {decode_cpe22(ext_ref[i][3]).val : i \in ValidRefs(ext_ref, t_cpe22Type, t_cpe22)}
    ELSE IF ValidRefs(ext_ref, t_purl, t_purl) # {}
    THEN {decode_purl(ext_ref[i][3]).val : i \in ValidRefs(ext_ref, t_purl, t_purl)}
    ELSE {<<None, None, None>>}

ScannedRefLists ==
    {filename.packages[i].externalreference : i \in 1..Len(filename.packages)}
        \ {NoExtRef}

\* C1: for every list of external references of a scanned package,
\* parse_ext_ref returns the triple of a valid cpe23Type reference if there is
\* one, else of a valid cpe22Type reference, else of a valid purl reference,
\* else (None, None, None).
C1_Claim ==
    Scanned =>
        \A ext_ref \in ScannedRefLists :
            /\ parse_ext_ref(ext_ref).exc = ""
            /\ parse_ext_ref(ext_ref).val \in PreferredTriples(ext_ref)

\* C2: every ProductInfo key of the mapping scan_file returns has a
\* non-empty product and a non-empty version.
C2_Claim ==
    sbom_pc = "returned" =>
        \A row \in sbom_data : Truthy(row[2]) /\ Truthy(row[3])

\* The rows C3 expects for one module.
C3_Rows(m) ==
    LET product == lower(m[2])
        vendors == IndexVendors(product)
    IN  IF m[1] # None THEN << <<m[1], product, m[3]>> >>
        ELSE IF vendors = <<>> THEN << <<UNKNOWN, product, m[3]>> >>
        ELSE [i \in 1..Len(vendors) |-> <<vendors[i], product, m[3]>>]

VendorLess(m) == m[1] = None

\* C3: scan_file emits, module by module, one row with the module's vendor
\* when it has one and otherwise one row per vendor the index holds for the
\* lower-cased product, a single UNKNOWN row when it holds none; the index is
\* asked about the vendor-less modules only, and no row has a null vendor.
C3_VendorResolution ==
    sbom_pc = "returned" =>
        /\ scan.parsed_data =
               Concat([i \in 1..Len(scan.modules) |-> C3_Rows(scan.modules[i])])
        /\ scan.lookups =
               LET asked == SelectSeq(scan.modules, VendorLess)
               IN  [i \in 1..Len(asked) |-> lower(asked[i][2])]
        /\ sbom_data = Range(scan.parsed_data)
        /\ \A row \in sbom_data : row[1] # None

\* A module with a vendor and a module the index knows nothing about were
\* both resolved.
C3_Witness ==
    /\ sbom_pc = "returned"
    /\ Len(scan.modules) = 2
    /\ scan.modules[1][1] = s_pallets
    /\ scan.modules[2][1] = None
    /\ scan.lookups = <<s_six>>
    /\ <<UNKNOWN, s_six, v_1_1>> \in sbom_data

\* The known prefix a product starts with, stripped; the product itself when
\* it starts with none.
Stripped(product) ==
    IF \E k \in 1..Len(common_prefix) : startswith(product, common_prefix[k])
    THEN DropFirst(product,
             Len(common_prefix[CHOOSE k \in 1..Len(common_prefix) :
                 /\ startswith(product, common_prefix[k])
                 /\ \A j \in 1..(k - 1) : ~startswith(product, common_prefix[j])]))
    ELSE product

\* A vendor-less module whose product starts with a known prefix, unknown to
\* the index under its full name and known under the stripped one.
C4_Case(m) ==
    /\ m[1] = None
    /\ Stripped(lower(m[2])) # lower(m[2])
    /\ IndexVendors(lower(m[2])) = <<>>
    /\ IndexVendors(Stripped(lower(m[2]))) # <<>>

\* The vendors of the rows scan_file emitted for a module.
EmittedVendors(m) ==
    {row[1] : row \in {r \in Range(scan.parsed_data) :
                          r[2] = lower(m[2]) /\ r[3] = m[3]}}

C9_Claim == sbom_pc # "raised"

\* The packages without external references and with a version of their own
\* are among the modules.
PlainPackagesIngested ==
    \A i \in 1..Len(filename.packages) :
        LET package == filename.packages[i]
        IN  (package.externalreference = NoExtRef /\ Truthy(package.version))
                => <<None, package.name, package.version>> \in Range(scan.modules)

\* C10: a validating manager whose .xml file fails validation returns an
\* empty mapping; without validation, or for a file that is not .xml, no
\* validator is consulted and the packages are ingested.
C10_Validation ==
    /\ (Scanned /\ scan.validated = "invalid") =>
           /\ sbom_pc = "returned"
           /\ validate /\ filename.xml
           /\ scan.modules = <<>>
           /\ sbom_data = {}
    /\ (Scanned /\ (~validate \/ ~filename.xml)) => scan.validated = "skipped"
    /\ (sbom_pc = "returned" /\ scan.validated # "invalid") => PlainPackagesIngested

\* An .xml file with two packages failed validation and gave nothing.
C10_Witness ==
    /\ sbom_pc = "returned"
    /\ scan.validated = "invalid"
    /\ Len(filename.packages) = 2
    /\ filename.packages[2].version = v_1_1
    /\ sbom_data = {}

\* What the fallback chain gives for a product: the vendors of the name
\* without its first matching prefix, else the vendors of the '-' segments,
\* else `nothing`.
StrippedHits(product, version) ==
    IF Stripped(product) = product THEN <<>>
    ELSE [i \in 1..Len(IndexVendors(Stripped(product))) |->
             <<IndexVendors(Stripped(product))[i], Stripped(product), version>>]

SegmentHits(product, version) ==
    Concat([k \in 1..Len(split(product, "-")) |->
               [i \in 1..Len(IndexVendors(split(product, "-")[k])) |->
                   <<IndexVendors(split(product, "-")[k])[i],
                     split(product, "-")[k], version>>]])

FallbackChain(product, version, nothing) ==
    IF StrippedHits(product, version) # <<>> THEN StrippedHits(product, version)
    ELSE IF SegmentHits(product, version) # <<>> THEN SegmentHits(product, version)
    ELSE nothing

LastSegment(s) == split(s, "/")[Len(split(s, "/"))]

Concrete(require) == require[2] # s_star

\* The pairs an entry of the packages / dependencies map stands for: its own
\* version, then its requires entries with a concrete version.
EntryPairs(entry) ==
    << <<LastSegment(entry[1]), entry[2].version>> >>
    \o [i \in 1..Len(SelectSeq(entry[2].requires, Concrete)) |->
           <<LastSegment(SelectSeq(entry[2].requires, Concrete)[i][1]),
             SelectSeq(entry[2].requires, Concrete)[i][2]>>]

\* The pair of the top-level name and version of the lock file.
TopPairs(data) ==
    IF data.name # None /\ data.version # None
    THEN << <<data.name, data.version>> >> ELSE <<>>

\* The records vendor resolution gives for a sequence of pairs.
Reported(pairs, path) ==
    Concat([i \in 1..Len(pairs) |->
               [j \in 1..Len(IndexVendors(pairs[i][1])) |->
                   <<<<IndexVendors(pairs[i][1])[j], pairs[i][1], pairs[i][2]>>,
                     path>>]])

WithVersion(entry) == entry[2].kind = "obj" /\ entry[2].version # None

\* A lock file of schema >= 2 whose packages are objects with a version.
ValidLockfile2(data) ==
    /\ data.lockfileVersion >= 2
    /\ data.packages # Missing
    /\ \A i \in 1..Len(data.packages) : WithVersion(data.packages[i])

IsString(entry) == entry[2].kind = "str"

\* A legacy lock file whose dependencies are version strings or objects with
\* a version, one of them at least a version string.
LegacyLockfile(data) ==
    /\ data.lockfileVersion = 1
    /\ data.dependencies # Missing
    /\ \A i \in 1..Len(data.dependencies) :
           IsString(data.dependencies[i]) \/ WithVersion(data.dependencies[i])
    /\ \E i \in 1..Len(data.dependencies) : IsString(data.dependencies[i])

\* C7 as stated: for a legacy lock file, a dependency written as a version
\* string gives the pair (product, version) the object form gives, and
\* run_checker ends normally having reported every dependency.
C7_Claim ==
    (js.pc # "none" /\ LegacyLockfile(js.file.data)) =>
        /\ js.pc # "raised"
        /\ js.pc = "done" =>
               /\ js_calls = TopPairs(js.file.data)
                      \o Concat([i \in 1..Len(js.file.data.dependencies) |->
                                    EntryPairs(js.file.data.dependencies[i])])
               /\ js_out = Reported(js_calls, js.file.path)

\* The map run_checker reads.
EntryMap(data) ==
    IF data.lockfileVersion >= 2 THEN data.packages ELSE data.dependencies

Malformed(entry) == ~WithVersion(entry)

\* A lock file with exactly one malformed entry: an object without version
\* or, for schema >= 2, a value that is no object.
OneMalformed(data) ==
    /\ data.lockfileVersion >= 1
    /\ EntryMap(data) # Missing
    /\ Cardinality({i \in 1..Len(EntryMap(data)) : Malformed(EntryMap(data)[i])}) = 1
    /\ data.lockfileVersion = 1 =>
           \A i \in 1..Len(EntryMap(data)) : ~IsString(EntryMap(data)[i])

\* C8 as stated: with one malformed entry in the map, run_checker raises
\* nothing, passes nothing of that entry to vendor resolution and yields the
\* records of every well-formed entry.
C8_Claim ==
    (js.pc # "none" /\ OneMalformed(js.file.data)) =>
        /\ js.pc # "raised"
        /\ js.pc = "done" =>
               /\ js_calls = TopPairs(js.file.data)
                      \o Concat([i \in 1..Len(EntryMap(js.file.data)) |->
                                    IF Malformed(EntryMap(js.file.data)[i]) THEN <<>>
                                    ELSE EntryPairs(EntryMap(js.file.data)[i])])
               /\ js_out = Reported(js_calls, js.file.path)

\* Whenever parse_ext_ref returns, what it returns follows the preference
\* order.
PreferenceWhenReturned ==
    Scanned =>
        \A ext_ref \in ScannedRefLists :
            parse_ext_ref(ext_ref).exc = ""
                => parse_ext_ref(ext_ref).val \in PreferredTriples(ext_ref)

\* ---- casing of the records of scan_file
\* C16 as stated: every ProductInfo key scan_file returns has a lower-cased
\* vendor (the vendor UNKNOWN apart) and a lower-cased product, whatever the
\* casing in the document or the CPE reference.
C16_Claim ==
    sbom_pc = "returned" =>
        \A row \in sbom_data :
            /\ row[1] = UNKNOWN \/ row[1] = lower(row[1])
            /\ row[2] = lower(row[2])

\* What does hold: the product of every record is lower-cased.
ProductLowerCased ==
    sbom_pc = "returned" => \A row \in sbom_data : row[2] = lower(row[2])

\* ---- field-wise fallback of parse_sbom
\* Field k of a reference string, absent when empty or when the string has
\* no such field.
FieldAt(ref_string, k) ==
    IF k <= Len(split(ref_string, ":")) THEN OrNone(split(ref_string, ":")[k])
    ELSE None

\* The (vendor, product, version) fields of the valid CPE references of the
\* highest preference in ext_ref.
ChosenFields(ext_ref) ==
    IF ValidRefs(ext_ref, t_cpe23Type, t_cpe23) # {}
    THEN {<<FieldAt(ext_ref[i][3], 4), FieldAt(ext_ref[i][3], 5), FieldAt(ext_ref[i][3], 6)>>
             : i \in ValidRefs(ext_ref, t_cpe23Type, t_cpe23)}
    ELSE {<<FieldAt(ext_ref[i][3], 3), FieldAt(ext_ref[i][3], 4), FieldAt(ext_ref[i][3], 5)>>
             : i \in ValidRefs(ext_ref, t_cpe22Type, t_cpe22)}

HasValidCpe(package) ==
    /\ package.externalreference # NoExtRef
    /\ ChosenFields(package.externalreference) # {}

\* The modules a package may give: the fields of the chosen reference, the
\* missing product and version taken from the package itself.
FallbackModules(package) ==
    IF HasValidCpe(package)
    THEN {<<chosen[1],
            IF Truthy(chosen[2]) THEN chosen[2] ELSE package.name,
            IF Truthy(chosen[3]) THEN chosen[3] ELSE package.version>>
             : chosen \in ChosenFields(package.externalreference)}
    ELSE {<<None, package.name, package.version>>}

\* The files C18 is about: every package has no reference at all or a valid
\* CPE reference, and one at least has a valid CPE reference.
C18_Case ==
    /\ Scanned
    /\ scan.validated # "invalid"
    /\ \A i \in 1..Len(filename.packages) :
           \/ filename.packages[i].externalreference = NoExtRef
           \/ HasValidCpe(filename.packages[i])
    /\ \E i \in 1..Len(filename.packages) : HasValidCpe(filename.packages[i])

\* The modules of a file are those its packages may give, and every package
\* with a version gives one.
FieldWiseFallback ==
    /\ \A m \in Range(scan.modules) :
           \E i \in 1..Len(filename.packages) : m \in FallbackModules(filename.packages[i])
    /\ \A i \in 1..Len(filename.packages) :
           (\A m \in FallbackModules(filename.packages[i]) : Truthy(m[3]))
               => \E m \in FallbackModules(filename.packages[i]) : m \in Range(scan.modules)

\* C18 as stated: when the chosen reference of a package lacks the product or
\* the version, scan_file returns and the module has the package's own name
\* or version in its place, never a field of a lower-preference reference,
\* and the vendor of the chosen reference.
C18_Claim == C18_Case => (sbom_pc = "returned" /\ FieldWiseFallback)

\* What does hold: whenever scan_file returns, the fallback is field-wise to
\* the package.
FallbackWhenReturned == (C18_Case /\ sbom_pc = "returned") => FieldWiseFallback

\* A package with version 1.0, a CPE 2.2 reference without version and a purl
\* of version 3.0 gave a module of version 1.0.
FallbackSeen ==
    /\ C18_Case
    /\ sbom_pc = "returned"
    /\ \E i \in 1..Len(filename.packages) :
           /\ filename.packages[i].version = v_1_0
           /\ Len(filename.packages[i].externalreference) = 2
           /\ \E j \in 1..2 : filename.packages[i].externalreference[j][2] = t_purl
                                /\ filename.packages[i].externalreference[j][3] = purl_flask_3_0
    /\ \E m \in Range(scan.modules) : m[1] = s_pallets /\ m[3] = v_1_0

\* ---- emission order of JavascriptParser.run_checker
IsPrefix(s, t) == Len(s) <= Len(t) /\ s = SubSeq(t, 1, Len(s))

\* A lock file without map, or whose map holds objects with a version only.
WellFormedLockfile(data) ==
    \/ data.lockfileVersion = 0
    \/ /\ EntryMap(data) # Missing
       /\ \A i \in 1..Len(EntryMap(data)) : WithVersion(EntryMap(data)[i])

\* The pairs of a lock file in file order: the top-level name and version,
\* then entry by entry the entry's own version and its concrete requires.
FileOrderPairs(data) ==
    TopPairs(data)
    \o (IF data.lockfileVersion = 0 THEN <<>>
        ELSE Concat([i \in 1..Len(EntryMap(data)) |-> EntryPairs(EntryMap(data)[i])]))

\* C15: what run_checker has yielded so far is at every moment an initial
\* part of the records of the file in file order (top-level name/version,
\* then per entry its own version and its non-wildcard requires), and all of
\* them once the generator has ended.
C15_FileOrder ==
    (js.pc # "none" /\ WellFormedLockfile(js.file.data)) =>
        /\ js.pc # "raised"
        /\ IsPrefix(js_out, Reported(FileOrderPairs(js.file.data), js.file.path))
        /\ js.pc = "done" =>
               js_out = Reported(FileOrderPairs(js.file.data), js.file.path)

\* A lock file with a top-level name and two entries is part-way through its
\* records: those of the top level and of the first entry are out, the
\* generator is suspended before those of the second.
C15_Witness ==
    /\ js.pc = "suspended"
    /\ WellFormedLockfile(js.file.data)
    /\ js.file.data.name = s_app
    /\ js.file.data.lockfileVersion >= 2
    /\ Len(js.file.data.packages) = 2
    /\ js.file.data.packages[1][2].requires # <<>>
    /\ Len(js_out) = 3
    /\ js_out[1][1][2] = s_app
    /\ js_out[2][1] = <<s_actions, s_core, v_2_0>>
    /\ js_out[3][1] = <<s_actions, s_core, v_1_1>>
    /\ Len(Reported(FileOrderPairs(js.file.data), js.file.path)) > 3

\* ---- agreement of the CPE decoders
\* C17: decode_cpe23 of the CPE 2.3 string and decode_cpe22 of the CPE 2.2
\* string carrying the same vendor, product and version return the same
\* triple, which is (vendor, product, version) with every empty field absent.
C17_DecodeAgreement ==
    cpe_decoded.called =>
        /\ cpe_decoded.triple23.exc = ""
        /\ cpe_decoded.triple22.exc = ""
        /\ cpe_decoded.triple23.val = cpe_decoded.triple22.val
        /\ cpe_decoded.triple23.val =
               <<IF cpe_decoded.vendor = <<>> THEN None ELSE cpe_decoded.vendor,
                 IF cpe_decoded.product = <<>> THEN None ELSE cpe_decoded.product,
                 IF cpe_decoded.version = <<>> THEN None ELSE cpe_decoded.version>>

\* cpe:2.3:a:nasm:netwide_assembler:2.15:*:*:*:*:*:*:* was decoded to
\* (nasm, netwide_assembler, 2.15), and so was cpe:/a:nasm:netwide_assembler:2.15.
C17_Witness ==
    /\ cpe_decoded.called
    /\ cpe_decoded.cpe23 = <<"c","p","e",":","2",".","3",":","a",":","n","a","s","m",":",
                         "n","e","t","w","i","d","e","_","a","s","s","e","m","b","l","e","r",":",
                         "2",".","1","5",":","*",":","*",":","*",":","*",":","*",":","*",":","*">>
    /\ cpe_decoded.cpe22 = <<"c","p","e",":","/","a",":","n","a","s","m",":",
                         "n","e","t","w","i","d","e","_","a","s","s","e","m","b","l","e","r",":",
                         "2",".","1","5">>
    /\ cpe_decoded.triple23.val = <<s_nasm, s_netwide_assembler, v_2_15>>
    /\ cpe_decoded.triple22.val = <<s_nasm, s_netwide_assembler, v_2_15>>

\* An identity without vendor and version was decoded to absent fields.
EmptyFieldsAbsent ==
    /\ cpe_decoded.called
    /\ cpe_decoded.vendor = <<>> /\ cpe_decoded.version = <<>> /\ cpe_decoded.product = s_flask
    /\ cpe_decoded.triple23.val = <<None, s_flask, None>>
    /\ cpe_decoded.triple22.val = <<None, s_flask, None>>

\* ---- PythonParser.run_checker
\* One of the first three lines starts with the field name and goes on.
HeaderHas(lines, field) ==
    \E k \in 1..Len(lines) :
        k <= 3 /\ startswith(lines[k], field) /\ Len(lines[k]) > Len(field)

\* The value of the field in the first of the lines that has it.
HeaderValue(lines, field) ==
    LET k == CHOOSE k \in 1..Len(lines) :
                 /\ startswith(lines[k], field) /\ Len(lines[k]) > Len(field)
                 /\ \A j \in 1..(k - 1) :
                        ~(startswith(lines[j], field) /\ Len(lines[j]) > Len(field))
    IN  SubSeq(lines[k], Len(field) + 1, Len(lines[k]))

\* C12: when the first three lines of the metadata file do not hold both a
\* line starting with "Name: " and a line starting with "Version: ",
\* PythonParser.run_checker yields nothing and ends without an exception.
C12_NoHeaderFields ==
    (/\ py[1].pc # "none"
     /\ ~(HeaderHas(py[1].file.lines, s_Name) /\ HeaderHas(py[1].file.lines, s_Version)))
        => /\ py[1].pc \in {"created", "done"}
           /\ py[1].exc = ""
           /\ py_out = <<>>

\* A file with Version: in its header and Name: on its fourth line only was
\* read to the end and gave nothing.
C12_Witness ==
    /\ py[1].pc = "done"
    /\ Len(py[1].file.lines) = 4
    /\ py[1].file.lines[2] = l_version
    /\ py[1].file.lines[4] = l_name_zstandard
    /\ ~HeaderHas(py[1].file.lines, s_Name)
    /\ py_out = <<>>

\* The records C13 expects of a file: one per vendor of the index for the
\* product named in the header, in index order, with the path of the file.
HeaderRecords(file) ==
    LET P == HeaderValue(file.lines, s_Name)
        V == HeaderValue(file.lines, s_Version)
    IN  [i \in 1..Len(IndexVendors(P)) |->
            [call |-> 1, record |-> <<<<IndexVendors(P)[i], P, V>>, file.path>>]]

\* C13: when the first three lines give Name: P and Version: V,
\* PythonParser.run_checker yields exactly one record (vendor, P, V) per
\* vendor the index holds for P, in index order, each with the path of the
\* scanned file.
C13_HeaderRecords ==
    (/\ py[1].pc # "none"
     /\ HeaderHas(py[1].file.lines, s_Name) /\ HeaderHas(py[1].file.lines, s_Version))
        => /\ IsPrefix(py_out, HeaderRecords(py[1].file))
           /\ py[1].pc = "done" => py_out = HeaderRecords(py[1].file)

\* With zstandard indexed under facebook alone, the PKG-INFO of zstandard
\* 0.18.0 gave exactly (facebook, zstandard, 0.18.0).
C13_Witness ==
    /\ cvedb[s_zstandard] = <<s_facebook>>
    /\ py[1].pc = "done"
    /\ py[1].file.lines = <<l_metadata_version, l_name_zstandard, l_version>>
    /\ py_out = << [call |-> 1,
                    record |-> <<<<s_facebook, s_zstandard, v_0_18_0>>, s_PKG_INFO>>] >>

\* C14 as stated: every record an invocation of run_checker yields carries
\* the path of the file passed to that invocation, however the invocations
\* on the parser are interleaved.
C14_Claim ==
    \A i \in 1..Len(py_out) : py_out[i].record[2] = py[py_out[i].call].file.path

\* ------------------------------------------------------------------- C11
\* A pip3 install --dry-run of the run failed.
ResolverFailure ==
    req.env.first = "fail" \/ req.env.second = "fail"

\* C11: when the pip resolver invocation fails, run_checker yields no
\* record, logs a diagnostic that names the minimum pip version, and ends
\* without raising to its caller.
C11_Claim ==
    (req.pc \in {"suspended", "done", "raised"} /\ ResolverFailure)
        => /\ req.pc = "done"
           /\ req_out = <<>>
           /\ \E i \in 1..Len(req_log) : req_log[i] = m_pip_required

\* What the code does keep of C11: a failure of the first resolver call
\* under a pip older than 22.2 ends the generator with no record, no
\* exception and the diagnostic logged.
FirstFailureOldPip ==
    (/\ req.pc \in {"suspended", "done", "raised"}
     /\ req.env.first = "fail"
     /\ req.env.pip \in {pip_20_0_2, pip_22_1_2})
        => /\ req.pc = "done"
           /\ req_out = <<>>
           /\ req_log = <<m_output, m_not_scanned, m_pip_required>>

\* The second resolver call failed after the first succeeded and the
\* generator raised.
SecondFailureRaised ==
    /\ req.pc = "raised"
    /\ req.env.first = "ok"
    /\ req.env.second = "fail"

\* The first resolver call failed under pip 22.2 or newer and the generator
\* ended with e.output as its only message.
FirstFailureNoDiagnostic ==
    /\ req.pc = "done"
    /\ req.env.first = "fail"
    /\ req.env.pip \in {pip_22_2, pip_23_0_1}
    /\ req_log = <<m_output>>

====
